---- MODULE Spec2Model ----
(***************************************************************************)
(* Pairwise-dataset generator of keystroke-dynamics (src/pair_data.py):    *)
(* extract_pairs, get_pair_data, abs_diff_between_all_row_pairs and        *)
(* cartesian_product, with the pandas / numpy calls they make.             *)
(*                                                                         *)
(* A frame is a record                                                     *)
(*   [raised, cols, data, src]                                             *)
(* cols  : the column names, in order                                      *)
(* data  : the rows, each a sequence of cells aligned with cols            *)
(* src   : per row, the row labels of DF_registration the row was built    *)
(*         from: <<a>> for a row selected by .loc (its index label),       *)
(*         <<a, b>> for a row of a pair table (row a of DF_data_A, row b   *)
(*         of DF_data_B).  For pair tables this is bookkeeping of the      *)
(*         model; no operator of the program reads it.                     *)
(* raised: TRUE stands for the ValueError the call ended with.             *)
(* Row labels are the positions 1..Len(DF_registration).                   *)
(***************************************************************************)
EXTENDS Integers, Sequences, FiniteSets, TLC

\* ---------------------------------------------------------------- bounds
\* the most rows of a Feature Table
MaxRows == 6

\* the hold times of the rows are in 0..MaxHold
MaxHold == 1

\* the subjects, in alphabetical order
AlphabeticalNames == <<"alice", "bob", "carol">>

UserNames == {AlphabeticalNames[n] : n \in DOMAIN AlphabeticalNames}

\* the feature_names arguments tried
FeatureNameChoices == {<<"hold">>, <<"hold", "sequence">>}

\* ------------------------------------------------------- sequence helpers
Range(s) == {s[k] : k \in DOMAIN s}

Front(s) == SubSeq(s, 1, Len(s) - 1)

Last(s) == s[Len(s)]

RECURSIVE Flatten(_)
Flatten(ss) == IF ss = <<>> THEN <<>> ELSE Flatten(Front(ss)) \o Last(ss)

Positions(s) == [k \in 1..Len(s) |-> k]

ColIndex(cols, name) == CHOOSE c \in 1..Len(cols) : cols[c] = name

\* ----------------------------------------------------------------- frames
Frame(cols, data, src) ==
    [raised |-> FALSE, cols |-> cols, data |-> data, src |-> src]

ValueError == [raised |-> TRUE, cols |-> <<>>, data |-> <<>>, src |-> <<>>]

NoFrame == Frame(<<>>, <<>>, <<>>)

\* DF[name] = value / DF[name] = values: overwrite the column when the frame
\* has it, append it otherwise; vals is aligned with the rows
SetColumn(F, name, vals) ==
    IF name \in Range(F.cols)
    THEN Frame(F.cols,
               [r \in 1..Len(F.data) |->
                   [c \in 1..Len(F.cols) |->
                       IF F.cols[c] = name THEN vals[r] ELSE F.data[r][c]]],
               F.src)
    ELSE Frame(Append(F.cols, name),
               [r \in 1..Len(F.data) |-> Append(F.data[r], vals[r])],
               F.src)

\* drop whose result is not assigned back: the frame keeps the column
drop_not_assigned(F, name) == F

\* DF.drop(name, axis=1)
drop(F, name) ==
    LET keep == SelectSeq(Positions(F.cols), LAMBDA c : F.cols[c] # name)
    IN  Frame([c \in 1..Len(keep) |-> F.cols[keep[c]]],
              [r \in 1..Len(F.data) |->
                  [c \in 1..Len(keep) |-> F.data[r][keep[c]]]],
              F.src)

\* DF[mask]: the rows the boolean mask keeps, in order
FilterRows(F, mask) ==
    LET keep == SelectSeq(Positions(F.data), LAMBDA r : mask[r])
    IN  Frame(F.cols,
              [r \in 1..Len(keep) |-> F.data[keep[r]]],
              [r \in 1..Len(keep) |-> F.src[keep[r]]])

\* np.unique in place of pd.unique: the distinct values, sorted
np_unique_sorted(s) == SelectSeq(AlphabeticalNames, LAMBDA u : u \in Range(s))

\* pd.unique: the distinct values in order of first appearance
RECURSIVE pd_unique(_)
pd_unique(s) ==
    IF s = <<>> THEN <<>>
    ELSE LET u == pd_unique(Front(s))
         IN  IF Last(s) \in Range(u) THEN u ELSE Append(u, Last(s))

\* DF_registration.loc[DF_registration['user_name'] == user_name, names]:
\* a new frame (a copy) of the selected rows and columns, index labels kept
loc(DF, user_name, names) ==
    LET rows == SelectSeq(Positions(DF), LAMBDA k : DF[k].user_name = user_name)
    IN  Frame(names,
              [r \in 1..Len(rows) |->
                  [c \in 1..Len(names) |-> DF[rows[r]][names[c]]]],
              [r \in 1..Len(rows) |-> <<rows[r]>>])

\* pd.concat(frames): ValueError("No objects to concatenate") on an empty
\* list; otherwise the rows of the frames one after the other (the frames of
\* one list have the same columns here)
pd_concat(frames) ==
    IF frames = <<>> THEN ValueError
    ELSE Frame(frames[1].cols,
               Flatten([k \in 1..Len(frames) |-> frames[k].data]),
               Flatten([k \in 1..Len(frames) |-> frames[k].src]))

\* the two labels exchanged
with_label_exchanged(F, label) ==
    SetColumn(F, "label", [r \in 1..Len(F.data) |-> 1 - label])

\* DF['label'] = label
with_label(F, label) == SetColumn(F, "label", [r \in 1..Len(F.data) |-> label])

\* ---------------------------------------- abs_diff_between_all_row_pairs
np_abs(x) == IF x < 0 THEN 0 - x ELSE x

\* the slice taken from i instead of i+1: every row is paired with itself too
pairs_within_from_i(num_examples, nA) ==
    [i \in 1..(num_examples - 1) |->
        [t \in 1..(nA - i + 1) |-> <<i, i + t - 1>>]]

\* [pairs_diffs[i, i+1:] for i in range(num_examples-1)] as index pairs
\* <<b, a>> into pairs_diffs (first axis DF_data_B, second axis DF_data_A)
pairs_within(num_examples, nA) ==
    [i \in 1..(num_examples - 1) |-> [t \in 1..(nA - i) |-> <<i, i + t>>]]

\* np.reshape(pairs_diffs, [-1, num_features]): row-major over (b, a)
reshape_pairs(nB, nA) ==
    [k \in 1..(nB * nA) |-> <<((k - 1) \div nA) + 1, ((k - 1) % nA) + 1>>]

abs_diff_between_all_row_pairs(DF_data_A, DF_data_B, within_A) ==
    LET nA == Len(DF_data_A.data)
        nB == Len(DF_data_B.data)
        num_examples == nA
        num_features == Len(DF_data_A.cols)
        pairs_diffs(b, a) ==
            [c \in 1..num_features |->
                np_abs(DF_data_A.data[a][c] - DF_data_B.data[b][c])]
        pw == pairs_within(num_examples, nA)
        idx == IF within_A THEN Flatten(pw) ELSE reshape_pairs(nB, nA)
    IN  IF within_A /\ pw = <<>>
        THEN ValueError   \* np.concatenate of an empty list
        ELSE Frame(DF_data_A.cols,
                   [k \in 1..Len(idx) |-> pairs_diffs(idx[k][1], idx[k][2])],
                   [k \in 1..Len(idx) |->
                       <<DF_data_A.src[idx[k][2]][1], DF_data_B.src[idx[k][1]][1]>>])

\* ------------------------------------------------------ cartesian_product
tmp_cart_prod_colname == "_tmp_cart_prod"

tmp_row_number_colname == "_tmp_row_number"

suffixes == <<"_A", "_B">>

\* pd.merge(L, R, on=on, suffixes=suffixes): inner join on the key column;
\* left columns then right columns without the key, overlapping names
\* suffixed; rows in left-major order
pd_merge(L, R, on) ==
    LET lk == ColIndex(L.cols, on)
        rk == ColIndex(R.cols, on)
        rkeep == SelectSeq(Positions(R.cols), LAMBDA c : c # rk)
        lcols == [c \in 1..Len(L.cols) |->
                    IF c # lk /\ L.cols[c] \in Range(R.cols)
                    THEN L.cols[c] \o suffixes[1] ELSE L.cols[c]]
        rcols == [c \in 1..Len(rkeep) |->
                    IF R.cols[rkeep[c]] \in Range(L.cols)
                    THEN R.cols[rkeep[c]] \o suffixes[2] ELSE R.cols[rkeep[c]]]
        nL == Len(L.data)
        nR == Len(R.data)
        all == [k \in 1..(nL * nR) |->
                   <<((k - 1) \div nR) + 1, ((k - 1) % nR) + 1>>]
        hit == SelectSeq(all, LAMBDA p : L.data[p[1]][lk] = R.data[p[2]][rk])
    IN  Frame(lcols \o rcols,
              [k \in 1..Len(hit) |->
                  L.data[hit[k][1]] \o
                  [c \in 1..Len(rkeep) |-> R.data[hit[k][2]][rkeep[c]]]],
              [k \in 1..Len(hit) |->
                  <<L.src[hit[k][1]][1], R.src[hit[k][2]][1]>>])

\* the comparison that removes the self-pairs only
nonredundant_rows_unequal(row_number_A, row_number_B) ==
    row_number_A # row_number_B

\* DF_all_pairs[row_number_colname_A] > DF_all_pairs[row_number_colname_B]
nonredundant_rows(row_number_A, row_number_B) == row_number_A > row_number_B

\* the frames DF_data_A / DF_data_B after lines 174-180: the columns are
\* assigned in place; within_A the two names denote one object
tmp_columns(F, within_A) ==
    LET F1 == SetColumn(F, tmp_cart_prod_colname, [r \in 1..Len(F.data) |-> 0])
    IN  IF within_A
        THEN SetColumn(F1, tmp_row_number_colname,
                       [r \in 1..Len(F.data) |-> r - 1])
        ELSE F1

\* the result is [out: the frame returned, A, B: the argument frames as the
\* call leaves them]
cartesian_product(DF_data_A, DF_data_B, within_A) ==
    LET A1 == tmp_columns(DF_data_A, within_A)
        B1 == IF within_A THEN A1 ELSE tmp_columns(DF_data_B, within_A)
        merged == drop(pd_merge(A1, B1, tmp_cart_prod_colname),
                       tmp_cart_prod_colname)
        row_number_colname_A == tmp_row_number_colname \o suffixes[1]
        row_number_colname_B == tmp_row_number_colname \o suffixes[2]
        cA == ColIndex(merged.cols, row_number_colname_A)
        cB == ColIndex(merged.cols, row_number_colname_B)
        kept == FilterRows(merged,
                    [r \in 1..Len(merged.data) |->
                        nonredundant_rows(merged.data[r][cA],
                                          merged.data[r][cB])])
    IN  [out |-> IF within_A
                 THEN drop(drop(kept, row_number_colname_A), row_number_colname_B)
                 ELSE merged,
         A |-> A1,
         B |-> B1]

\* ----------------------------------------------------------- get_pair_data
\* B_is_None stands for the call without DF_data_B (then DF_data_B is
\* DF_data_A itself)
get_pair_data(only_diffs, DF_data_A, DF_data_B, B_is_None) ==
    LET within_A == B_is_None
        B == IF B_is_None THEN DF_data_A ELSE DF_data_B
    IN  IF only_diffs
        THEN [out |-> abs_diff_between_all_row_pairs(DF_data_A, B, within_A),
              A |-> DF_data_A,
              B |-> B]
        ELSE cartesian_product(DF_data_A, B, within_A)

\* ------------------------------------------------------------ extract_pairs
VARIABLES
    DF_registration,     \* argument: the rows [user_name, hold, sequence]
    feature_names,       \* argument
    only_feature_diffs,  \* argument
    pc,                  \* position in extract_pairs
    raised_by,           \* the statement whose ValueError ended the call
    user_names,          \* line 38
    i, j,                \* the loop variables of lines 43-44
    k,                   \* position of the loop of line 65 in user_names
    all_pair_DFs,        \* lines 42, 64
    DF_features_A,       \* line 48, as the last call left it
    DF_features_B,       \* line 49, as the last call left it
    DF_features,         \* line 67, as the last call left it
    DF_pair_data,        \* lines 53, 68
    DF_negative,         \* line 60
    DF_positive,         \* line 74
    returned,            \* the frame line 77 returns
    passed_A,            \* first frame of the last get_pair_data call, as passed
    passed_B,            \* second frame of that call, as passed (NoFrame: None)
    within_call,         \* that call was made without DF_data_B
    n_calls              \* get_pair_data calls made so far

vars == <<DF_registration, feature_names, only_feature_diffs, pc, raised_by,
          user_names, i, j, k, all_pair_DFs, DF_features_A, DF_features_B,
          DF_features, DF_pair_data, DF_negative, DF_positive, returned,
          passed_A, passed_B, within_call, n_calls>>

\* The Feature Tables tried: up to MaxRows rows, the subject of every row
\* drawn freely, the hold times cycling through 0..MaxHold from a drawn
\* offset; the raw sequence of a row is key-down at 0, key-up at hold.
Table(users, shift) ==
    [r \in 1..Len(users) |->
        LET h == (r + shift) % (MaxHold + 1)
        IN  [user_name |-> users[r], hold |-> h, sequence |-> <<0, h>>]]

Init ==
    /\ \E n \in 0..MaxRows : \E users \in [1..n -> UserNames] :
          \E shift \in 0..MaxHold :
             DF_registration = Table(users, shift)
    /\ feature_names \in FeatureNameChoices
    /\ only_feature_diffs \in BOOLEAN
    /\ pc = "start"
    /\ raised_by = "none"
    /\ user_names = <<>>
    /\ i = 0
    /\ j = 0
    /\ k = 0
    /\ all_pair_DFs = <<>>
    /\ DF_features_A = NoFrame
    /\ DF_features_B = NoFrame
    /\ DF_features = NoFrame
    /\ DF_pair_data = NoFrame
    /\ DF_negative = NoFrame
    /\ DF_positive = NoFrame
    /\ returned = NoFrame
    /\ passed_A = NoFrame
    /\ passed_B = NoFrame
    /\ within_call = FALSE
    /\ n_calls = 0

\* line 29
sequence_in_feature_names == "sequence" \in Range(feature_names)

\* the flag tested the wrong way round
config_rejected_inverted == ~only_feature_diffs /\ sequence_in_feature_names

\* line 30
config_rejected == only_feature_diffs /\ sequence_in_feature_names

\* lines 30-36: raise ValueError(msg)
RaiseConfigError ==
    /\ pc = "start"
    /\ config_rejected
    /\ pc' = "raised"
    /\ raised_by' = "config"
    /\ UNCHANGED <<DF_registration, feature_names, only_feature_diffs,
                   user_names, i, j, k, all_pair_DFs, DF_features_A,
                   DF_features_B, DF_features, DF_pair_data, DF_negative,
                   DF_positive, returned, passed_A, passed_B, within_call,
                   n_calls>>

\* lines 38-43: the subjects, and entry into the loop over pairs of subjects
ListUsers ==
    /\ pc = "start"
    /\ ~config_rejected
    /\ user_names' = pd_unique([r \in 1..Len(DF_registration) |->
                                   DF_registration[r].user_name])
    /\ i' = 0
    /\ j' = 1
    /\ pc' = IF Len(user_names') - 1 > 0 THEN "negative" ELSE "concat_negative"
    /\ UNCHANGED <<DF_registration, feature_names, only_feature_diffs,
                   raised_by, k, all_pair_DFs, DF_features_A, DF_features_B,
                   DF_features, DF_pair_data, DF_negative, DF_positive,
                   returned, passed_A, passed_B, within_call, n_calls>>

\* lines 44-58: one pass of the inner loop, for the subjects i < j
NegativePair ==
    /\ pc = "negative"
    /\ LET num_users == Len(user_names)
           A == loc(DF_registration, user_names[i + 1], feature_names)
           B == loc(DF_registration, user_names[j + 1], feature_names)
           call == get_pair_data(only_feature_diffs, A, B, FALSE)
       IN  /\ passed_A' = A
           /\ passed_B' = B
           /\ within_call' = FALSE
           /\ n_calls' = n_calls + 1
           /\ DF_features_A' = call.A
           /\ DF_features_B' = call.B
           /\ DF_pair_data' = call.out
           /\ IF call.out.raised
              THEN /\ pc' = "raised"
                   /\ raised_by' = "get_pair_data"
                   /\ UNCHANGED <<all_pair_DFs, i, j>>
              ELSE /\ all_pair_DFs' = Append(all_pair_DFs, call.out)
                   /\ raised_by' = raised_by
                   /\ IF j + 1 < num_users
                      THEN /\ i' = i
                           /\ j' = j + 1
                           /\ pc' = "negative"
                      ELSE /\ i' = i + 1
                           /\ j' = i + 2
                           /\ pc' = IF i + 1 < num_users - 1
                                    THEN "negative" ELSE "concat_negative"
    /\ UNCHANGED <<DF_registration, feature_names, only_feature_diffs,
                   user_names, k, DF_features, DF_negative, DF_positive,
                   returned>>

\* lines 60-65: the label-0 block, and entry into the loop over subjects
ConcatNegative ==
    /\ pc = "concat_negative"
    /\ LET c == pd_concat(all_pair_DFs)
       IN  IF c.raised
           THEN /\ pc' = "raised"
                /\ raised_by' = "concat_negative"
                /\ UNCHANGED <<DF_negative, all_pair_DFs, k>>
           ELSE /\ DF_negative' = with_label(c, 0)
                /\ all_pair_DFs' = <<>>
                /\ k' = 0
                /\ raised_by' = raised_by
                /\ pc' = IF Len(user_names) > 0
                         THEN "positive" ELSE "concat_positive"
    /\ UNCHANGED <<DF_registration, feature_names, only_feature_diffs,
                   user_names, i, j, DF_features_A, DF_features_B,
                   DF_features, DF_pair_data, DF_positive, returned,
                   passed_A, passed_B, within_call, n_calls>>

\* lines 65-72: one pass of the loop over subjects
PositiveUser ==
    /\ pc = "positive"
    /\ LET F == loc(DF_registration, user_names[k + 1], feature_names)
           call == get_pair_data(only_feature_diffs, F, NoFrame, TRUE)
       IN  /\ passed_A' = F
           /\ passed_B' = NoFrame
           /\ within_call' = TRUE
           /\ n_calls' = n_calls + 1
           /\ DF_features' = call.A
           /\ DF_pair_data' = call.out
           /\ IF call.out.raised
              THEN /\ pc' = "raised"
                   /\ raised_by' = "get_pair_data"
                   /\ UNCHANGED <<all_pair_DFs, k>>
              ELSE /\ all_pair_DFs' = Append(all_pair_DFs, call.out)
                   /\ raised_by' = raised_by
                   /\ k' = k + 1
                   /\ pc' = IF k + 1 < Len(user_names)
                            THEN "positive" ELSE "concat_positive"
    /\ UNCHANGED <<DF_registration, feature_names, only_feature_diffs,
                   user_names, i, j, DF_features_A, DF_features_B,
                   DF_negative, DF_positive, returned>>

\* lines 74-75: the label-1 block
ConcatPositive ==
    /\ pc = "concat_positive"
    /\ LET c == pd_concat(all_pair_DFs)
       IN  IF c.raised
           THEN /\ pc' = "raised"
                /\ raised_by' = "concat_positive"
                /\ UNCHANGED DF_positive
           ELSE /\ DF_positive' = with_label(c, 1)
                /\ raised_by' = raised_by
                /\ pc' = "return"
    /\ UNCHANGED <<DF_registration, feature_names, only_feature_diffs,
                   user_names, i, j, k, all_pair_DFs, DF_features_A,
                   DF_features_B, DF_features, DF_pair_data, DF_negative,
                   returned, passed_A, passed_B, within_call, n_calls>>

\* line 77
Return ==
    /\ pc = "return"
    /\ returned' = pd_concat(<<DF_negative, DF_positive>>)
    /\ pc' = "done"
    /\ UNCHANGED <<DF_registration, feature_names, only_feature_diffs,
                   raised_by, user_names, i, j, k, all_pair_DFs,
                   DF_features_A, DF_features_B, DF_features, DF_pair_data,
                   DF_negative, DF_positive, passed_A, passed_B, within_call,
                   n_calls>>

Next ==
    \/ RaiseConfigError
    \/ ListUsers
    \/ NegativePair
    \/ ConcatNegative
    \/ PositiveUser
    \/ ConcatPositive
    \/ Return

Spec == Init /\ [][Next]_vars

\* ------------------------------------------------------------- properties
\* What the properties read off the Feature Table, independently of the
\* operators above.
UserOf(r) == DF_registration[r].user_name

Subjects == {UserOf(r) : r \in 1..Len(DF_registration)}

GroupRows(u) == {r \in 1..Len(DF_registration) : UserOf(r) = u}

GroupSize(u) == Cardinality(GroupRows(u))

FirstRow(u) == CHOOSE r \in GroupRows(u) : \A q \in GroupRows(u) : r <= q

RECURSIVE SumFn(_)
SumFn(f) ==
    IF DOMAIN f = {} THEN 0
    ELSE LET x == CHOOSE x \in DOMAIN f : TRUE
         IN  f[x] + SumFn([y \in DOMAIN f \ {x} |-> f[y]])

\* Sum over i<j of n_i * n_j, the subjects taken in first-seen order
NegativeCount ==
    SumFn([p \in {q \in Subjects \X Subjects : FirstRow(q[1]) < FirstRow(q[2])}
              |-> GroupSize(p[1]) * GroupSize(p[2])])

\* Sum over i of n_i * (n_i - 1) / 2
PositiveCount ==
    SumFn([u \in Subjects |-> (GroupSize(u) * (GroupSize(u) - 1)) \div 2])

LabelOf(F, r) == F.data[r][ColIndex(F.cols, "label")]

RowsLabeled(F, l) == {r \in 1..Len(F.data) : LabelOf(F, r) = l}

BagOf(s) == [x \in Range(s) |-> Cardinality({n \in DOMAIN s : s[n] = x})]

ArgumentsRejected == only_feature_diffs /\ "sequence" \in Range(feature_names)

LastCallWithin == n_calls > 0 /\ within_call

\* C1: a within-group call of get_pair_data on a group of n >= 2 rows, in
\* either mode, returns n*(n-1)/2 rows, none pairing a row with itself, and
\* each unordered pair of distinct rows of the group in exactly one of them.
WithinGroupDedup ==
    (LastCallWithin /\ Len(passed_A.data) >= 2) =>
        LET n == Len(passed_A.data)
            labels == {passed_A.src[r][1] : r \in 1..n}
            out == DF_pair_data
            PairOf(r) == {out.src[r][1], out.src[r][2]}
        IN  /\ ~out.raised
            /\ Len(out.data) = (n * (n - 1)) \div 2
            /\ \A r \in 1..Len(out.data) :
                  /\ out.src[r][1] # out.src[r][2]
                  /\ PairOf(r) \subseteq labels
            /\ \A x \in labels : \A y \in labels :
                  x < y => Cardinality({r \in 1..Len(out.data) :
                                           PairOf(r) = {x, y}}) = 1

WithinGroupDedupWitness ==
    /\ LastCallWithin
    /\ ~only_feature_diffs
    /\ Len(passed_A.data) = 3
    /\ Len(DF_pair_data.data) = 3

\* C2: with at least two subjects, each of at least two rows, the returned
\* dataset has Sum_{i<j} n_i*n_j rows labeled 0, Sum_i n_i*(n_i-1)/2 rows
\* labeled 1, and no other row, in either mode.
RowCounts ==
    (/\ pc = "done"
     /\ Cardinality(Subjects) >= 2
     /\ \A u \in Subjects : GroupSize(u) >= 2) =>
        /\ Cardinality(RowsLabeled(returned, 0)) = NegativeCount
        /\ Cardinality(RowsLabeled(returned, 1)) = PositiveCount
        /\ Len(returned.data) = NegativeCount + PositiveCount

RowCountsWitness ==
    /\ pc = "done"
    /\ only_feature_diffs
    /\ Cardinality(Subjects) = 3
    /\ \A u \in Subjects : GroupSize(u) >= 2

\* row r of F holds what the mode makes of the rows a and b of the Feature
\* Table: their elementwise absolute difference, or a's features then b's
DerivedFrom(F, r, a, b) ==
    LET nF == Len(feature_names)
        cell(x, c) == DF_registration[x][feature_names[c]]
    IN  IF only_feature_diffs
        THEN \A c \in 1..nF :
                F.data[r][c] = IF cell(a, c) < cell(b, c)
                               THEN cell(b, c) - cell(a, c)
                               ELSE cell(a, c) - cell(b, c)
        ELSE \A c \in 1..nF :
                /\ F.data[r][c] = cell(a, c)
                /\ F.data[r][nF + c] = cell(b, c)

\* C3: every row of the returned dataset is made of one pair of two distinct
\* rows of the Feature Table, and is labeled 1 exactly when the two rows have
\* the same user_name and 0 exactly when they have different ones.
LabelSoundness ==
    pc = "done" =>
        \A r \in 1..Len(returned.data) :
            /\ Len(returned.src[r]) = 2
            /\ LET a == returned.src[r][1]
                   b == returned.src[r][2]
               IN  /\ a \in 1..Len(DF_registration)
                   /\ b \in 1..Len(DF_registration)
                   /\ a # b
                   /\ DerivedFrom(returned, r, a, b)
                   /\ LabelOf(returned, r) \in {0, 1}
                   /\ LabelOf(returned, r) = 1 <=> UserOf(a) = UserOf(b)
                   /\ LabelOf(returned, r) = 0 <=> UserOf(a) # UserOf(b)

LabelSoundnessWitness ==
    /\ pc = "done"
    /\ RowsLabeled(returned, 0) # {}
    /\ RowsLabeled(returned, 1) # {}
    /\ Cardinality(Subjects) = 3

\* the elementwise absolute difference of the _A block and the _B block of
\* every row of a concat-mode table
AbsDiffOfBlocks(F) ==
    LET nF == Len(F.cols) \div 2
    IN  [r \in 1..Len(F.data) |->
            [c \in 1..nF |->
                IF F.data[r][c] < F.data[r][nF + c]
                THEN F.data[r][nF + c] - F.data[r][c]
                ELSE F.data[r][c] - F.data[r][nF + c]]]

\* C4: for every call of get_pair_data on numeric features, the diff-mode
\* result and the concat-mode result both exist, and the multiset of the
\* diff-mode rows is the multiset of |_A block - _B block| of the concat-mode
\* rows.
DiffConcatCorrespondence ==
    (n_calls > 0 /\ "sequence" \notin Range(feature_names)) =>
        LET d == get_pair_data(TRUE, passed_A, passed_B, within_call).out
            c == get_pair_data(FALSE, passed_A, passed_B, within_call).out
        IN  /\ ~d.raised
            /\ ~c.raised
            /\ BagOf(d.data) = BagOf(AbsDiffOfBlocks(c))

\* C5: with only_feature_diffs set and "sequence" among feature_names the
\* call ends with the configuration ValueError and nothing else: no subject
\* is listed, get_pair_data is never called, no table is built or returned.
ConfigErrorUpFront ==
    ArgumentsRejected =>
        /\ pc \in {"start", "raised"}
        /\ pc = "raised" => raised_by = "config"
        /\ n_calls = 0
        /\ user_names = <<>>
        /\ all_pair_DFs = <<>>
        /\ DF_pair_data = NoFrame
        /\ DF_negative = NoFrame
        /\ DF_positive = NoFrame
        /\ returned = NoFrame

ConfigErrorUpFrontWitness ==
    /\ pc = "raised"
    /\ raised_by = "config"
    /\ Cardinality(Subjects) >= 2

\* C6: with fewer than two subjects (here: the rows of one subject)
\* extract_pairs does not fail, and what it returns has no row labeled 0 and
\* the n*(n-1)/2 rows labeled 1 of the one subject.
DegenerateSubjectCount ==
    (Cardinality(Subjects) = 1 /\ ~ArgumentsRejected) =>
        /\ pc # "raised"
        /\ pc = "done" =>
              /\ RowsLabeled(returned, 0) = {}
              /\ Cardinality(RowsLabeled(returned, 1)) = PositiveCount

\* C7: with some subject of exactly one row (among at least two subjects)
\* extract_pairs does not fail in either mode, and the returned dataset has
\* the cross-subject rows of that subject and no within-subject row of it.
SingleRowSubject ==
    (/\ Cardinality(Subjects) >= 2
     /\ \E u \in Subjects : GroupSize(u) = 1
     /\ ~ArgumentsRejected) =>
        /\ pc # "raised"
        /\ pc = "done" =>
              /\ Cardinality(RowsLabeled(returned, 0)) = NegativeCount
              /\ Cardinality(RowsLabeled(returned, 1)) = PositiveCount

TransientColumns ==
    {"_tmp_cart_prod", "_tmp_cart_prod_A", "_tmp_cart_prod_B",
     "_tmp_row_number", "_tmp_row_number_A", "_tmp_row_number_B"}

\* C8: after a call of get_pair_data the frames passed to it are as they were
\* passed, and hold no transient column.
NoSideEffectsOnInputs ==
    n_calls > 0 =>
        IF within_call
        THEN /\ DF_features = passed_A
             /\ Range(DF_features.cols) \cap TransientColumns = {}
        ELSE /\ DF_features_A = passed_A
             /\ DF_features_B = passed_B
             /\ Range(DF_features_A.cols) \cap TransientColumns = {}
             /\ Range(DF_features_B.cols) \cap TransientColumns = {}

FeatureColumns ==
    IF only_feature_diffs
    THEN Range(feature_names)
    ELSE {feature_names[c] \o "_A" : c \in DOMAIN feature_names}
         \cup {feature_names[c] \o "_B" : c \in DOMAIN feature_names}

FeatureColumnCount ==
    IF only_feature_diffs THEN Len(feature_names) ELSE 2 * Len(feature_names)

HasSchema(F, labeled) ==
    /\ Range(F.cols) = FeatureColumns \cup (IF labeled THEN {"label"} ELSE {})
    /\ Len(F.cols) = FeatureColumnCount + (IF labeled THEN 1 ELSE 0)
    /\ Range(F.cols) \cap TransientColumns = {}

\* C9: whatever the rows of the Feature Table, every table get_pair_data
\* returns has the feature columns of the mode (feature_names in diff mode,
\* each feature name suffixed _A and _B in concat mode), the label-0 block,
\* the label-1 block and the returned dataset have these and label, and none
\* has a transient column.
OutputSchema ==
    /\ \A t \in 1..Len(all_pair_DFs) : HasSchema(all_pair_DFs[t], FALSE)
    /\ (n_calls > 0 /\ ~DF_pair_data.raised) => HasSchema(DF_pair_data, FALSE)
    /\ DF_negative # NoFrame => HasSchema(DF_negative, TRUE)
    /\ DF_positive # NoFrame => HasSchema(DF_positive, TRUE)
    /\ pc = "done" => HasSchema(returned, TRUE)

OutputSchemaWitness ==
    /\ pc = "done"
    /\ ~only_feature_diffs
    /\ Len(feature_names) = 2
    /\ Len(returned.cols) = 5
    /\ Len(returned.data) > 3

OrderKey(r) ==
    <<LabelOf(returned, r),
      FirstRow(UserOf(returned.src[r][1])),
      FirstRow(UserOf(returned.src[r][2]))>>

LexLeq(x, y) ==
    \/ x[1] < y[1]
    \/ x[1] = y[1] /\ x[2] < y[2]
    \/ x[1] = y[1] /\ x[2] = y[2] /\ x[3] <= y[3]

\* C10: in the returned dataset the rows labeled 0 come before the rows
\* labeled 1; the rows labeled 0 pair a subject seen earlier (first) with one
\* seen later (second) and are ordered by the pair (first, second) of
\* first-seen positions; the rows labeled 1 are ordered by the first-seen
\* position of their subject.
OutputOrdering ==
    pc = "done" =>
        /\ \A r \in 1..Len(returned.data) :
              LabelOf(returned, r) = 0 => OrderKey(r)[2] < OrderKey(r)[3]
        /\ \A r \in 1..(Len(returned.data) - 1) :
              LexLeq(OrderKey(r), OrderKey(r + 1))

OutputOrderingWitness ==
    /\ pc = "done"
    /\ user_names = <<"carol", "alice", "bob">>
    /\ \A u \in Subjects : GroupSize(u) = 2

====
